---- MODULE Spec2Model ----
(***************************************************************************)
(* Gridded time-series aggregation of the ERA5 notebooks: climatologies    *)
(* (overall, seasonal, annual), area-weighted spatial averages and         *)
(* per-cell linear trends.                                                 *)
(*                                                                         *)
(* Floating-point values are modelled as exact rationals [num, den] in     *)
(* lowest terms with den > 0; the missing marker NaN is [num 0, den 0].    *)
(* Rounding error of the doubles is not modelled.                          *)
(***************************************************************************)
EXTENDS Integers, Sequences, FiniteSets, TLC

VARIABLES
    da,         \* the monthly field (time, latitude, longitude), in degrees C
    clim,       \* da.mean('time')
    clim_seas,  \* seasonal climatologies of the selected region
    da_year,    \* the field resampled to one value per calendar year
    da_alt,     \* a second yearly field, for comparing two runs of trend()
    ts,         \* the spatially averaged time series
    ts_arctic,  \* the spatial average north of 60N
    coords,     \* the variables attached to da_year by da_year[arr_name] = arr
    coords_alt, \* the trend outputs of the second field
    raised,     \* the exception the last executed cell raised, or "none"
    obs,        \* comparison notebook: the ERA5 field, in degrees C
    model,      \* comparison notebook: the CMIP6 model field, in degrees C
    clim_obs,   \* the ERA5 climatology over the common period
    clim_model, \* the model climatology over the common period
    clim_obs_regrid, \* clim_obs on the model grid
    bias,       \* clim_model - clim_obs_regrid, as handed to the plot
    ds,         \* the chunked ERA5 dataset (t2m in kelvin)
    pending,    \* the blocks a requested materialisation still has to compute
    computed,   \* the blocks whose values have been computed so far
    zone,       \* the names latmin, latmax, lonmin, lonmax of the region
    nbytes,     \* ds.t2m.nbytes, as digits in base 1024 (most significant first)
    shown       \* what the cell calling convert_size displays

\* the names of the comparison notebook
cmpVars == <<obs, model, clim_obs, clim_model, clim_obs_regrid, bias>>

\* the chunked dataset and the state of its scheduler
lazyVars == <<ds, pending, computed>>

\* the size check of the dataset
sizeVars == <<nbytes, shown>>

vars ==
    <<da, clim, clim_seas, da_year, da_alt, ts, ts_arctic, coords, coords_alt,
      raised, cmpVars, lazyVars, zone, sizeVars>>

-----------------------------------------------------------------------------
(* Bounds of the model and constants of the notebooks *)

MaxSteps == 2       \* monthly time steps of the field of SpecClim
MaxYears == 3       \* yearly time steps of the fields of SpecTrend, SpecPair
MaxAvgSteps == 1    \* time steps of the field of SpecAvg
MaxSeasonYears == 4 \* full calendar years of the monthly field of SpecSeason
MaxBase == 7        \* largest first-year value of a cell of SpecDecade
StartYear == 1979   \* first year of the ERA5 record
EndYear == 2020     \* last year of the ERA5 record
PeriodStart == 1979 \* period = slice('1979', '2014')
PeriodStop == 2014
ChunkLat == 360     \* chunks={"longitude": 360, "latitude": 360}
ChunkLon == 360
MaxPattern == 9     \* value patterns of the dataset of SpecLazy
LazySteps == 2      \* time steps of the dataset of SpecLazy
latmin == 38
latmax == 56
lonmin == -10
lonmax == 15

\* latmin=38 ; latmax=56 ; lonmin=-10 ; lonmax=15
NotebookZone ==
    [latmin |-> latmin, latmax |-> latmax, lonmin |-> lonmin,
     lonmax |-> lonmax]

\* sample values of a cell (degrees C); NaN is added where a field may have
\* missing values
Samples == {0, 1, 2}
ClimSamples == {1, 2}
AvgSamples == {1, 2}
PairSamples == {0, 1}

-----------------------------------------------------------------------------
(* Arithmetic on doubles, exact *)

Abs(n) == IF n < 0 THEN -n ELSE n

Sign(n) == IF n < 0 THEN -1 ELSE IF n = 0 THEN 0 ELSE 1

RECURSIVE Gcd(_, _)
Gcd(a, b) == IF b = 0 THEN a ELSE Gcd(b, a % b)

NaN == [num |-> 0, den |-> 0]

IsNaN(x) == x.den = 0

\* n / d of two integers; 0/0 is NaN as in numpy (a non-zero dividend over
\* zero does not arise in the computations modelled here)
Rat(n, d) ==
    IF d = 0 THEN NaN
    ELSE LET g == Gcd(Abs(n), Abs(d))
             s == IF d < 0 THEN -1 ELSE 1
         IN  [num |-> (s * n) \div g, den |-> (s * d) \div g]

Int2F(n) == [num |-> n, den |-> 1]

\* a + b over the least common denominator, g the gcd of the denominators
AddOver(a, b, g) ==
    Rat(a.num * (b.den \div g) + b.num * (a.den \div g),
        (a.den \div g) * b.den)

FAdd(a, b) ==
    IF IsNaN(a) \/ IsNaN(b) THEN NaN
    ELSE AddOver(a, b, Gcd(a.den, b.den))

FSub(a, b) ==
    IF IsNaN(a) \/ IsNaN(b) THEN NaN
    ELSE AddOver(a, [num |-> -b.num, den |-> b.den], Gcd(a.den, b.den))

\* a * b with the common factors g1 of a.num, b.den and g2 of b.num, a.den
\* taken out first
MulOver(a, b, g1, g2) ==
    Rat((a.num \div g1) * (b.num \div g2), (a.den \div g2) * (b.den \div g1))

FMul(a, b) ==
    IF IsNaN(a) \/ IsNaN(b) THEN NaN
    ELSE MulOver(a, b, Gcd(Abs(a.num), b.den), Gcd(Abs(b.num), a.den))

FDiv(a, b) ==
    IF IsNaN(a) \/ IsNaN(b) \/ b.num = 0 THEN NaN
    ELSE FMul(a, Rat(b.den, b.num))

\* comparisons with NaN are false
FEq(a, b) == ~IsNaN(a) /\ ~IsNaN(b) /\ a = b

FLt(a, b) == ~IsNaN(a) /\ ~IsNaN(b) /\ a.num * b.den < b.num * a.den

RECURSIVE SumRange(_, _, _)
\* s[lo] + ... + s[hi], summed by halves
SumRange(s, lo, hi) ==
    IF lo > hi THEN Int2F(0)
    ELSE IF lo = hi THEN s[lo]
    ELSE LET mid == (lo + hi) \div 2
         IN  FAdd(SumRange(s, lo, mid), SumRange(s, mid + 1, hi))

SumSeq(s) == SumRange(s, 1, Len(s))

\* the non-missing elements of s, in order
Valid(s) == SelectSeq(s, LAMBDA v : ~IsNaN(v))

Range(s) == {s[i] : i \in 1..Len(s)}

\* the positions of s whose element is in S, in increasing order
PosWhere(s, S) ==
    LET P == {i \in 1..Len(s) : s[i] \in S}
    IN  [k \in 1..Cardinality(P) |->
            CHOOSE i \in P : Cardinality({j \in P : j <= i}) = k]

-----------------------------------------------------------------------------
(* Fields.  A DataArray is a record of its coordinate axes and its values: *)
(* data[t][i][j] is the value at time[t], latitude[i], longitude[j].       *)
(* A time stamp is [year, month].                                          *)

Unset == [unset |-> TRUE]

\* the time axis of T consecutive months starting at month m0 of StartYear
MonthlyAxis(m0, T) ==
    [t \in 1..T |-> [year  |-> StartYear + ((m0 + t - 2) \div 12),
                     month |-> ((m0 + t - 2) % 12) + 1]]

\* the time axis of n consecutive years, stamped at the end of each year
YearlyAxis(n) == [k \in 1..n |-> [year |-> StartYear + k - 1, month |-> 12]]

NLat(a) == Len(a.latitude)

NLon(a) == Len(a.longitude)

\* the series of cell (i, j) along the time axis
\* a time step missing in any cell is missing in every cell
Series_sharedmask(a, i, j) ==
    [t \in 1..Len(a.time) |->
        IF \E p \in 1..NLat(a), q \in 1..NLon(a) : IsNaN(a.data[t][p][q])
        THEN NaN
        ELSE a.data[t][i][j]]

\* the values of cell (i, j) along time
Series(a, i, j) == [t \in 1..Len(a.time) |-> a.data[t][i][j]]

\* no cell of the comparison notebook has been executed
ComparisonUnset ==
    /\ obs = Unset
    /\ model = Unset
    /\ clim_obs = Unset
    /\ clim_model = Unset
    /\ clim_obs_regrid = Unset
    /\ bias = Unset

\* the size of the dataset has not been displayed
SizeUnset ==
    /\ nbytes = Unset
    /\ shown = Unset

\* the dataset has not been chunked and nothing is scheduled
LazyUnset ==
    /\ ds = Unset
    /\ pending = {}
    /\ computed = {}

-----------------------------------------------------------------------------
(* Climatology reducer *)

\* the reducer sums instead of averaging
NanMean_sum(s) == SumSeq(Valid(s))

\* missing samples count in the denominator (and as 0 in the numerator)
NanMean_all(s) == FDiv(SumSeq(Valid(s)), Int2F(Len(s)))

\* mean(skipna=True) of the samples of one cell: sum and count of the
\* non-missing samples; an empty slice gives 0/0 = NaN
NanMean(s) == FDiv(SumSeq(Valid(s)), Int2F(Len(Valid(s))))

\* a.mean('time')
MeanTime(a) ==
    [latitude  |-> a.latitude,
     longitude |-> a.longitude,
     data      |-> [i \in 1..NLat(a) |-> [j \in 1..NLon(a) |->
                       NanMean(Series(a, i, j))]]]

\* a.sel(latitude=slice(start, stop)) on a descending latitude axis
SelLatitude(a, start, stop) ==
    LET keep == PosWhere(a.latitude,
                         {l \in Range(a.latitude) : stop <= l /\ l <= start})
    IN  [a EXCEPT
           !.latitude = [k \in 1..Len(keep) |-> a.latitude[keep[k]]],
           !.data = [t \in 1..Len(a.time) |->
                        [k \in 1..Len(keep) |-> a.data[t][keep[k]]]]]

\* (longitude > 360+lonmin) | (longitude < lonmax), one boolean per longitude
RegionMask_closed(longitude) ==
    [j \in 1..Len(longitude) |->
        (longitude[j] >= 360 + zone.lonmin) \/ (longitude[j] <= zone.lonmax)]

RegionMask(longitude) ==
    [j \in 1..Len(longitude) |->
        (longitude[j] > 360 + zone.lonmin) \/ (longitude[j] < zone.lonmax)]

\* the masked cells are filled with 0 instead of the missing marker
Where_zero(a, cond) ==
    [a EXCEPT !.data = [t \in 1..Len(a.time) |-> [i \in 1..NLat(a) |->
        [j \in 1..NLon(a) |-> IF cond[j] THEN a.data[t][i][j] ELSE Int2F(0)]]]]

\* a.where(cond), cond along the longitude axis: the value where cond holds,
\* the missing marker elsewhere
Where(a, cond) ==
    [a EXCEPT !.data = [t \in 1..Len(a.time) |-> [i \in 1..NLat(a) |->
        [j \in 1..NLon(a) |-> IF cond[j] THEN a.data[t][i][j] ELSE NaN]]]]

\* the seasons taken as the calendar quarters Jan-Mar, Apr-Jun, ...
Season_quarter(month) ==
    <<"DJF", "MAM", "JJA", "SON">>[(((month - 1) \div 3) % 4) + 1]

\* 'time.season' of a month
SeasonNames == <<"DJF", "MAM", "JJA", "SON">>

Season(month) == SeasonNames[((month \div 3) % 4) + 1]

\* the labels of a groupby result are the sorted unique labels
SortedSeasons == <<"DJF", "JJA", "MAM", "SON">>

\* the time steps of a whose season is g, in order
SeasonSteps(a, g) ==
    PosWhere([t \in 1..Len(a.time) |-> Season(a.time[t].month)], {g})

\* the years run from December to November
YearSteps_december(a, y) ==
    PosWhere([t \in 1..Len(a.time) |->
                 a.time[t].year + (IF a.time[t].month = 12 THEN 1 ELSE 0)],
             {y})

\* the time steps of a dated in year y, in order
YearSteps(a, y) ==
    PosWhere([t \in 1..Len(a.time) |-> a.time[t].year], {y})

\* the mean over the time steps `steps` of cell (i, j)
GroupMean(a, steps, i, j) ==
    NanMean([k \in 1..Len(steps) |-> a.data[steps[k]][i][j]])

\* a.groupby('time.season').mean('time')
GroupBySeasonMean(a) ==
    LET present == SelectSeq(SortedSeasons,
                             LAMBDA g : SeasonSteps(a, g) # <<>>)
    IN  [season    |-> present,
         latitude  |-> a.latitude,
         longitude |-> a.longitude,
         data      |-> [g \in 1..Len(present) |-> [i \in 1..NLat(a) |->
                          [j \in 1..NLon(a) |->
                             GroupMean(a, SeasonSteps(a, present[g]), i, j)]]]]

\* a.resample(time='Y').mean('time'): one bin per calendar year from the
\* first to the last year of the time axis
ResampleYearMean(a) ==
    LET first == a.time[1].year
        n     == a.time[Len(a.time)].year - first + 1
    IN  [time      |-> [k \in 1..n |-> [year |-> first + k - 1, month |-> 12]],
         latitude  |-> a.latitude,
         longitude |-> a.longitude,
         data      |-> [k \in 1..n |-> [i \in 1..NLat(a) |->
                          [j \in 1..NLon(a) |->
                             GroupMean(a, YearSteps(a, first + k - 1), i, j)]]]]

-----------------------------------------------------------------------------
(* The cells of 02_ERA5.ipynb that compute climatologies *)

\* clim = da.mean('time'); clim.load()
CellClim ==
    /\ da # Unset
    /\ clim' = MeanTime(da)
    /\ raised' = "none"
    /\ UNCHANGED <<da, clim_seas, da_year, da_alt, ts, ts_arctic, coords,
                   coords_alt>>
    /\ UNCHANGED <<cmpVars, lazyVars>>
    /\ UNCHANGED zone
    /\ UNCHANGED sizeVars

\* clim_seas = da.sel(latitude=slice(latmax,latmin)).where(...clim.longitude...)
\*                 .groupby('time.season').mean('time').load()
\* a 0-d value bound to a name by a reduction over every dimension
Scalar(v) == [scalar |-> v]

IsScalar(a) == DOMAIN a = {"scalar"}

CellClimSeas ==
    /\ da # Unset
    /\ IF clim = Unset
       THEN /\ raised' = "NameError"
            /\ UNCHANGED clim_seas
       ELSE IF IsScalar(clim)
       THEN /\ raised' = "AttributeError"
            /\ UNCHANGED clim_seas
       ELSE /\ clim_seas' = GroupBySeasonMean(
                   Where(SelLatitude(da, zone.latmax, zone.latmin),
                         RegionMask(clim.longitude)))
            /\ raised' = "none"
    /\ UNCHANGED <<da, clim, da_year, da_alt, ts, ts_arctic, coords, coords_alt>>
    /\ UNCHANGED <<cmpVars, lazyVars>>
    /\ UNCHANGED zone
    /\ UNCHANGED sizeVars

\* da_year = da.resample(time='Y').mean('time'); da_year.load()
CellResample ==
    /\ da # Unset
    /\ da_year' = ResampleYearMean(da)
    /\ raised' = "none"
    /\ UNCHANGED <<da, clim, clim_seas, da_alt, ts, ts_arctic, coords,
                   coords_alt>>
    /\ UNCHANGED <<cmpVars, lazyVars>>
    /\ UNCHANGED zone
    /\ UNCHANGED sizeVars

ClimVals == {NaN} \cup {Int2F(v) : v \in ClimSamples}

ClimLatAxes == {<<45>>, <<60>>}

ClimLonAxis == <<0, 180>>

Init ==
    /\ \E m0 \in 1..12, T \in 1..MaxSteps, lat \in ClimLatAxes :
          da \in {[time      |-> MonthlyAxis(m0, T),
                   latitude  |-> lat,
                   longitude |-> ClimLonAxis,
                   data      |-> d] :
                  d \in [1..T -> [1..Len(lat) ->
                            [1..Len(ClimLonAxis) -> ClimVals]]]}
    /\ clim = Unset
    /\ clim_seas = Unset
    /\ da_year = Unset
    /\ da_alt = Unset
    /\ ts = Unset
    /\ ts_arctic = Unset
    /\ coords = Unset
    /\ coords_alt = Unset
    /\ raised = "none"
    /\ ComparisonUnset
    /\ LazyUnset
    /\ zone = NotebookZone
    /\ SizeUnset

Next == CellClim \/ CellClimSeas \/ CellResample

Spec == Init /\ [][Next]_vars

-----------------------------------------------------------------------------
(* Properties of the climatology reducer *)

RECURSIVE IntSumRange(_, _, _, _)
\* the sum of f[x] over the x of S within lo..hi, summed by halves
IntSumRange(f, S, lo, hi) ==
    IF lo > hi THEN 0
    ELSE IF lo = hi THEN (IF lo \in S THEN f[lo] ELSE 0)
    ELSE LET mid == (lo + hi) \div 2
         IN  IntSumRange(f, S, lo, mid) + IntSumRange(f, S, mid + 1, hi)

\* the sum of f[t] over the time steps t of the set S
IntSum(f, S) == IntSumRange(f, S, 1, Len(da.time))

Steps == 1..Len(da.time)

\* the value of the input field at time step t, latitude lat, longitude index j
\* (the inputs are whole numbers of degrees or missing)
InputAt(t, lat, j) ==
    LET i == CHOOSE k \in 1..NLat(da) : da.latitude[k] = lat
    IN  da.data[t][i][j]

\* the value the seasonal climatology averages: the input inside the region
\* of longitudes, missing outside
RegionAt(t, lat, j) ==
    IF da.longitude[j] > 360 + lonmin \/ da.longitude[j] < lonmax
    THEN InputAt(t, lat, j) ELSE NaN

NoMissing == \A t \in Steps, i \in 1..NLat(da), j \in 1..NLon(da) :
                ~IsNaN(da.data[t][i][j])

\* C1: for a field with no missing values, the overall climatology of each
\* cell is the sum of the cell's values over all time steps divided by the
\* number of time steps.
C1_OverallMeanIsSumOverCount ==
    (clim # Unset /\ NoMissing) =>
        \A i \in 1..NLat(da), j \in 1..NLon(da) :
            clim.data[i][j] =
                Rat(IntSum([t \in Steps |-> da.data[t][i][j].num], Steps),
                    Len(da.time))

C1_Witness ==
    /\ clim # Unset
    /\ NoMissing
    /\ Len(da.time) >= 2
    /\ \E i \in 1..NLat(da), j \in 1..NLon(da) : clim.data[i][j].den = 2

\* the mean of the non-missing values among v[t], t in G, as sum over count
CountMean(v, G) ==
    LET V == {t \in G : ~IsNaN(v[t])}
    IN  Rat(IntSum([t \in V |-> v[t].num], V), Cardinality(V))

HasValid(v, G) == \E t \in G : ~IsNaN(v[t])

\* C2: for every cell and every group (overall, season, calendar year) the
\* climatology is the sum of the group's non-missing samples divided by the
\* number of its non-missing samples.
C2_MeanIgnoresMissing ==
    /\ clim # Unset =>
          \A i \in 1..NLat(da), j \in 1..NLon(da) :
             LET v == [t \in Steps |-> da.data[t][i][j]]
             IN  HasValid(v, Steps) => clim.data[i][j] = CountMean(v, Steps)
    /\ da_year # Unset =>
          \A k \in 1..Len(da_year.time), i \in 1..NLat(da), j \in 1..NLon(da) :
             LET v == [t \in Steps |-> da.data[t][i][j]]
                 G == {t \in Steps : da.time[t].year = da_year.time[k].year}
             IN  HasValid(v, G) => da_year.data[k][i][j] = CountMean(v, G)
    /\ clim_seas # Unset =>
          \A g \in 1..Len(clim_seas.season), i \in 1..NLat(clim_seas),
             j \in 1..NLon(clim_seas) :
             LET v == [t \in Steps |-> RegionAt(t, clim_seas.latitude[i], j)]
                 G == {t \in Steps :
                          Season(da.time[t].month) = clim_seas.season[g]}
             IN  HasValid(v, G) => clim_seas.data[g][i][j] = CountMean(v, G)

\* a group of two samples of which one is missing, in each kind of grouping
C2_Witness ==
    /\ clim # Unset /\ da_year # Unset /\ clim_seas # Unset
    /\ Len(da.time) = 2
    /\ Len(da_year.time) = 1
    /\ Len(clim_seas.season) = 1
    /\ NLat(clim_seas) = 1
    /\ IsNaN(da.data[1][1][1]) /\ da.data[2][1][1] = Int2F(2)
    /\ clim.data[1][1] = Int2F(2)
    /\ da_year.data[1][1][1] = Int2F(2)
    /\ clim_seas.data[1][1][1] = Int2F(2)

\* C3: a cell with no non-missing sample in a group gets the missing marker
\* for that group, no cell raises an arithmetic fault, and the cells of the
\* group that have samples get a value.
C3_EmptyGroupIsMissing ==
    /\ raised = "NameError" => clim = Unset
    /\ raised \in {"none", "NameError"}
    /\ clim # Unset =>
          \A i \in 1..NLat(da), j \in 1..NLon(da) :
             LET v == [t \in Steps |-> da.data[t][i][j]]
             IN  IsNaN(clim.data[i][j]) <=> ~HasValid(v, Steps)
    /\ da_year # Unset =>
          \A k \in 1..Len(da_year.time), i \in 1..NLat(da), j \in 1..NLon(da) :
             LET v == [t \in Steps |-> da.data[t][i][j]]
                 G == {t \in Steps : da.time[t].year = da_year.time[k].year}
             IN  IsNaN(da_year.data[k][i][j]) <=> ~HasValid(v, G)
    /\ clim_seas # Unset =>
          \A g \in 1..Len(clim_seas.season), i \in 1..NLat(clim_seas),
             j \in 1..NLon(clim_seas) :
             LET v == [t \in Steps |-> RegionAt(t, clim_seas.latitude[i], j)]
                 G == {t \in Steps :
                          Season(da.time[t].month) = clim_seas.season[g]}
             IN  IsNaN(clim_seas.data[g][i][j]) <=> ~HasValid(v, G)

\* a cell masked out by .where() next to a cell of the same group with a value
C3_Witness ==
    /\ clim_seas # Unset
    /\ raised = "none"
    /\ NLat(clim_seas) = 1
    /\ \A t \in Steps : ~IsNaN(da.data[t][1][2])
    /\ \E g \in 1..Len(clim_seas.season) :
          /\ IsNaN(clim_seas.data[g][1][2])
          /\ ~IsNaN(clim_seas.data[g][1][1])

-----------------------------------------------------------------------------
(* Seasonal grouping of whole calendar years *)

\* a field of n full calendar years (January to December) on one cell of the
\* region, with value b everywhere except value b + c at time step hot
InitSeason ==
    /\ \E n \in 1..MaxSeasonYears, b \in Samples, c \in Samples \ {0} :
       \E hot \in 1..(12 * n) :
          da = [time      |-> MonthlyAxis(1, 12 * n),
                latitude  |-> <<45>>,
                longitude |-> <<0>>,
                data      |-> [t \in 1..(12 * n) |->
                                 <<<<Int2F(IF t = hot THEN b + c ELSE b)>>>>]]
    /\ clim = Unset
    /\ clim_seas = Unset
    /\ da_year = Unset
    /\ da_alt = Unset
    /\ ts = Unset
    /\ ts_arctic = Unset
    /\ coords = Unset
    /\ coords_alt = Unset
    /\ raised = "none"
    /\ ComparisonUnset
    /\ LazyUnset
    /\ zone = NotebookZone
    /\ SizeUnset

SpecSeason == InitSeason /\ [][Next]_vars

\* the months of each season, as the claim states them
SeasonMonths ==
    [DJF |-> {12, 1, 2}, MAM |-> {3, 4, 5}, JJA |-> {6, 7, 8}, SON |-> {9, 10, 11}]

\* C4: for a monthly series of full calendar years (4 in the claim), grouping
\* by season gives exactly the groups DJF, MAM, JJA, SON; DJF holds the
\* Decembers, Januaries and Februaries, MAM March to May, JJA June to August,
\* SON September to November; every month is in exactly one group and each
\* group averages 3 months per year (12 samples for 4 years).
C4_SeasonGroups ==
    clim_seas # Unset =>
        /\ Len(clim_seas.season) = 4
        /\ Range(clim_seas.season) = {"DJF", "MAM", "JJA", "SON"}
        /\ \A mth \in 1..12 :
              Cardinality({g \in DOMAIN SeasonMonths :
                              mth \in SeasonMonths[g]}) = 1
        /\ \A g \in 1..4 :
              LET G == {t \in Steps :
                          da.time[t].month \in SeasonMonths[clim_seas.season[g]]}
              IN  /\ Cardinality(G) = 3 * (Len(da.time) \div 12)
                  /\ Range(SeasonSteps(da, clim_seas.season[g])) = G
                  /\ clim_seas.data[g][1][1] =
                        Rat(IntSum([t \in G |-> da.data[t][1][1].num], G),
                            Cardinality(G))

\* 4 full years, the distinguished sample in a December: it is averaged into
\* DJF, over 12 samples
C4_Witness ==
    /\ clim_seas # Unset
    /\ Len(da.time) = 48
    /\ \E t \in Steps :
          /\ da.time[t].month = 12
          /\ da.data[t][1][1] = Int2F(1)
          /\ \A u \in Steps \ {t} : da.data[u][1][1] = Int2F(0)
    /\ \E g \in 1..4 :
          /\ clim_seas.season[g] = "DJF"
          /\ clim_seas.data[g][1][1] = Rat(1, 12)

-----------------------------------------------------------------------------
(* Area-weighted spatial averager (u.spatial_average of the utils folder) *)

\* cos(latitude) at the latitudes where it is a rational number
CosLat(lat) ==
    CASE lat = 0 -> Int2F(1)
      [] lat \in {60, -60} -> Rat(1, 2)

\* the cells of time step t that hold a value
Included(a, t) ==
    {c \in (1..NLat(a)) \X (1..NLon(a)) : ~IsNaN(a.data[t][c[1]][c[2]])}

RECURSIVE SumCells(_, _)
\* the sum of f[c] over the cells c of the set C
SumCells(f, C) ==
    IF C = {} THEN Int2F(0)
    ELSE LET c == CHOOSE d \in C : TRUE IN FAdd(f[c], SumCells(f, C \ {c}))

\* the sum of cos(latitude) over the included cells of time step t
WeightSum(a, t) ==
    SumCells([c \in Included(a, t) |-> CosLat(a.latitude[c[1]])],
             Included(a, t))

\* the weights are not normalised
Weight_raw(a, t, c) ==
    IF c \in Included(a, t) THEN CosLat(a.latitude[c[1]]) ELSE NaN

\* every cell of the grid counts in the normalisation, missing or not
Weight_allcells(a, t, c) ==
    IF c \in Included(a, t)
    THEN FDiv(CosLat(a.latitude[c[1]]),
              SumCells([d \in (1..NLat(a)) \X (1..NLon(a)) |->
                           CosLat(a.latitude[d[1]])],
                       (1..NLat(a)) \X (1..NLon(a))))
    ELSE NaN

\* the normalised weight of cell c at time step t: missing for a missing cell
Weight(a, t, c) ==
    IF c \in Included(a, t)
    THEN FDiv(CosLat(a.latitude[c[1]]), WeightSum(a, t))
    ELSE NaN

\* u.spatial_average(a): per time step, the sum over the included cells of
\* weight * value; a time step with no included cell has no average
SpatialAverage(a) ==
    [time |-> a.time,
     data |-> [t \in 1..Len(a.time) |->
                 IF Included(a, t) = {} THEN NaN
                 ELSE SumCells([c \in Included(a, t) |->
                                   FMul(Weight(a, t, c),
                                        a.data[t][c[1]][c[2]])],
                               Included(a, t))]]

\* ts = u.spatial_average(da_year); ts.load()
CellSpatialAverage ==
    /\ da_year # Unset
    /\ ts' = SpatialAverage(da_year)
    /\ raised' = "none"
    /\ UNCHANGED <<da, clim, clim_seas, da_year, da_alt, ts_arctic, coords,
                   coords_alt>>
    /\ UNCHANGED <<cmpVars, lazyVars>>
    /\ UNCHANGED zone
    /\ UNCHANGED sizeVars

\* ts_arctic = u.spatial_average(da_year.sel(latitude=slice(90,60)))
CellArctic ==
    /\ da_year # Unset
    /\ ts_arctic' = SpatialAverage(SelLatitude(da_year, 90, 60))
    /\ raised' = "none"
    /\ UNCHANGED <<da, clim, clim_seas, da_year, da_alt, ts, coords,
                   coords_alt>>
    /\ UNCHANGED <<cmpVars, lazyVars>>
    /\ UNCHANGED zone
    /\ UNCHANGED sizeVars

AvgVals == {NaN} \cup {Int2F(v) : v \in AvgSamples}

AvgLatAxes == {<<60, 0>>, <<0, -60>>, <<60, -60>>}

AvgLonAxis == <<0, 180>>

\* a yearly field on a grid of two latitudes and two longitudes
InitAvg ==
    /\ \E n \in 1..MaxAvgSteps, lat \in AvgLatAxes :
          da_year \in {[time      |-> YearlyAxis(n),
                        latitude  |-> lat,
                        longitude |-> AvgLonAxis,
                        data      |-> d] :
                       d \in [1..n -> [1..Len(lat) ->
                                 [1..Len(AvgLonAxis) -> AvgVals]]]}
    /\ da = Unset
    /\ clim = Unset
    /\ clim_seas = Unset
    /\ da_alt = Unset
    /\ ts = Unset
    /\ ts_arctic = Unset
    /\ coords = Unset
    /\ coords_alt = Unset
    /\ raised = "none"
    /\ ComparisonUnset
    /\ LazyUnset
    /\ zone = NotebookZone
    /\ SizeUnset

NextAvg == CellSpatialAverage \/ CellArctic

SpecAvg == InitAvg /\ [][NextAvg]_vars

-----------------------------------------------------------------------------
(* Properties of the spatial averager *)

Cells(a) == (1..NLat(a)) \X (1..NLon(a))

\* every cell of a holds the value c at every time step
Uniform(a, c) ==
    \A t \in 1..Len(a.time), d \in Cells(a) : a.data[t][d[1]][d[2]] = Int2F(c)

\* C5: the spatial average of a field that holds the same value c at every
\* cell and time step is c at every time step, for every latitude axis.
C5_UniformFieldAveragesToItself ==
    \A c \in AvgSamples :
        /\ (ts # Unset /\ Uniform(da_year, c)) =>
              \A t \in 1..Len(ts.time) : ts.data[t] = Int2F(c)
        /\ (ts_arctic # Unset /\ Uniform(da_year, c)
              /\ \E i \in 1..NLat(da_year) : da_year.latitude[i] >= 60) =>
              \A t \in 1..Len(ts_arctic.time) : ts_arctic.data[t] = Int2F(c)

\* a uniform non-zero field on latitudes of unequal weight
C5_Witness ==
    /\ ts # Unset
    /\ Uniform(da_year, 2)
    /\ da_year.latitude = <<60, 0>>

RECURSIVE IntSumCells(_, _)
\* the sum of the integers f[c] over the cells c of the set C
IntSumCells(f, C) ==
    IF C = {} THEN 0
    ELSE LET c == CHOOSE d \in C : TRUE IN f[c] + IntSumCells(f, C \ {c})

\* twice the cosine of a latitude of the grid, a whole number
TwiceCos(lat) == IF lat = 0 THEN 2 ELSE 1

\* the average of time step t of field a over its non-missing cells, weighted
\* by cos(latitude): sum of weight * value over sum of weight
WeightedMean(a, t) ==
    LET V == {c \in Cells(a) : ~IsNaN(a.data[t][c[1]][c[2]])}
    IN  Rat(IntSumCells([c \in V |-> TwiceCos(a.latitude[c[1]])
                                        * a.data[t][c[1]][c[2]].num], V),
            IntSumCells([c \in V |-> TwiceCos(a.latitude[c[1]])], V))

\* C6: at every time step (with at least one non-missing cell) the weights
\* are proportional to cos(latitude) and sum to 1 over the non-missing cells;
\* missing cells are left out of the weighted sum and of the weight sum, and
\* the average of the time step is not missing.
C6_WeightsNormalisedOverValidCells ==
    ts # Unset =>
        \A t \in 1..Len(ts.time) :
            LET V == {c \in Cells(da_year) :
                         ~IsNaN(da_year.data[t][c[1]][c[2]])}
            IN  V # {} =>
                  /\ SumCells([c \in V |-> Weight(da_year, t, c)], V)
                        = Int2F(1)
                  /\ \A c \in V, d \in V :
                        FMul(Weight(da_year, t, c),
                             CosLat(da_year.latitude[d[1]]))
                        = FMul(Weight(da_year, t, d),
                               CosLat(da_year.latitude[c[1]]))
                  /\ \A c \in Cells(da_year) \ V :
                        IsNaN(Weight(da_year, t, c))
                  /\ ~IsNaN(ts.data[t])
                  /\ ts.data[t] = WeightedMean(da_year, t)

\* one missing marker in a time step whose other cells differ in value and in
\* weight
C6_Witness ==
    /\ ts # Unset
    /\ da_year.latitude = <<60, 0>>
    /\ IsNaN(da_year.data[1][1][1])
    /\ da_year.data[1][1][2] = Int2F(2)
    /\ da_year.data[1][2][1] = Int2F(1)
    /\ da_year.data[1][2][2] = Int2F(1)
    /\ ts.data[1] = Rat(6, 5)

-----------------------------------------------------------------------------
(* Per-cell linear trend estimator: trend() applies scipy.stats.linregress  *)
(* to the time series of every cell.                                        *)
(*                                                                          *)
(* A correlation or a standard error is a square root: it is kept as       *)
(* [sgn, sq], standing for sgn * sqrt(sq).  A p-value is kept as            *)
(*   [kind "zero"]   the literal 0.0,                                       *)
(*   [kind "one"]    the value 1.0,                                         *)
(*   [kind "tdist"]  2 * sf(|t|, df) of Student's t distribution, with      *)
(*                   t = r * sqrt(df / ((1 - r + TINY) * (1 + r + TINY)))   *)
(*                   and TINY = 1e-20; for r2 = 1 this is the smallest      *)
(*                   p-value of df degrees of freedom, below 1e-10,         *)
(*   [kind "nan"]    the missing marker.                                    *)

Root(sgn, sq) == [sgn |-> sgn, sq |-> sq]

RootNaN == Root(0, NaN)

\* sqrt(q) of a non-negative q
Sqrt(q) == IF IsNaN(q) \/ q.num < 0 THEN RootNaN ELSE Root(Sign(q.num), q)

PZero == [kind |-> "zero", r2 |-> NaN, df |-> 0]

POne == [kind |-> "one", r2 |-> NaN, df |-> 0]

PNaN == [kind |-> "nan", r2 |-> NaN, df |-> 0]

\* 2 * distributions.t.sf(|t|, df) for the t statistic of correlation r
TTest(r, df) ==
    IF IsNaN(r.sq) THEN PNaN
    ELSE IF r.sgn = 0 THEN POne
    ELSE [kind |-> "tdist", r2 |-> r.sq, df |-> df]

\* np.cov(x, y, bias=1) about the means xmean and ymean:
\* <<xmean, ymean, ssxm, ssxym, ssym>>
CovAbout(x, y, xmean, ymean) ==
    LET n == Len(x)
    IN  <<xmean, ymean,
          FDiv(SumSeq([k \in 1..n |->
                  FMul(FSub(x[k], xmean), FSub(x[k], xmean))]), Int2F(n)),
          FDiv(SumSeq([k \in 1..n |->
                  FMul(FSub(x[k], xmean), FSub(y[k], ymean))]), Int2F(n)),
          FDiv(SumSeq([k \in 1..n |->
                  FMul(FSub(y[k], ymean), FSub(y[k], ymean))]), Int2F(n))>>

\* xmean = np.mean(x), ymean = np.mean(y) and the covariances about them
Cov(x, y) ==
    CovAbout(x, y, FDiv(SumSeq(x), Int2F(Len(x))),
                   FDiv(SumSeq(y), Int2F(Len(y))))

\* the correlation loses its sign
Correlation_unsigned(ssxm, ssxym, ssym) ==
    IF FEq(ssxm, Int2F(0)) \/ FEq(ssym, Int2F(0)) THEN Root(0, Int2F(0))
    ELSE IF IsNaN(ssxym) \/ IsNaN(ssym) THEN RootNaN
    ELSE Root(1, FDiv(FMul(ssxym, ssxym), FMul(ssxm, ssym)))

\* the correlation r = ssxym / sqrt(ssxm * ssym), 0.0 when a variance is 0
Correlation(ssxm, ssxym, ssym) ==
    IF FEq(ssxm, Int2F(0)) \/ FEq(ssym, Int2F(0)) THEN Root(0, Int2F(0))
    ELSE IF IsNaN(ssxym) \/ IsNaN(ssym) THEN RootNaN
    ELSE Root(Sign(ssxym.num), FDiv(FMul(ssxym, ssxym), FMul(ssxm, ssym)))

\* the outputs of linregress from the means, the covariances and r
LinregressOut(n, y, xmean, ymean, ssxm, ssxym, ssym, r, slope) ==
    LET intercept == FSub(ymean, FMul(slope, xmean))
        df     == n - 2
        prob   == IF n = 2
                  THEN (IF FEq(y[1], y[2]) THEN POne ELSE PZero)
                  ELSE TTest(r, df)
        stderr == IF n = 2
                  THEN Root(0, Int2F(0))
                  ELSE Sqrt(FDiv(FDiv(FMul(FSub(Int2F(1), r.sq), ssym), ssxm),
                                 Int2F(df)))
    IN  <<slope, intercept, r, prob, stderr>>

\* the regression of x on y instead of y on x
LinregressFit_inverse(n, y, c) ==
    LinregressOut(n, y, c[1], c[2], c[3], c[4], c[5],
                  Correlation(c[3], c[4], c[5]), FDiv(c[4], c[5]))

LinregressFit(n, y, c) ==
    LinregressOut(n, y, c[1], c[2], c[3], c[4], c[5],
                  Correlation(c[3], c[4], c[5]), FDiv(c[4], c[3]))

\* scipy.stats.linregress(x, y): x a sequence of whole numbers, y of doubles.
\* The result is the 5-tuple (slope, intercept, rvalue, pvalue, stderr), or
\* the exception raised (empty input, or all x identical).
Linregress(x, y) ==
    LET n == Len(x)
    IN  IF n = 0
        THEN [raised |-> "ValueError", out |-> <<>>]
        ELSE IF n > 1 /\ \A k \in 1..n : x[k] = x[1]
        THEN [raised |-> "ValueError", out |-> <<>>]
        ELSE [raised |-> "none",
              out    |-> LinregressFit(n, y,
                            Cov([k \in 1..n |-> Int2F(x[k])], y))]

RECURSIVE FitCells(_, _, _, _)
\* linregress on the series of the cells (i, 1), ..., (i, j)
FitCells(x, a, i, j) ==
    IF j = 0 THEN <<>>
    ELSE Append(FitCells(x, a, i, j - 1), Linregress(x, Series(a, i, j)))

RECURSIVE FitRows(_, _, _)
\* linregress on the series of every cell of the latitudes 1, ..., i
FitRows(x, a, i) ==
    IF i = 0 THEN <<>>
    ELSE Append(FitRows(x, a, i - 1), FitCells(x, a, i, NLon(a)))

\* the five output arrays of the fits, or the exception a cell raised
Outputs(a, fit) ==
    IF \E i \in 1..NLat(a), j \in 1..NLon(a) : fit[i][j].raised # "none"
    THEN [raised |-> "ValueError", out |-> <<>>]
    ELSE [raised |-> "none",
          out    |-> [k \in 1..5 |-> [i \in 1..NLat(a) |->
                        [j \in 1..NLon(a) |-> fit[i][j].out[k]]]]]

\* xr.apply_ufunc(stats.linregress, x, y, input_core_dims=[[dim], [dim]],
\*                output_core_dims=[[], [], [], [], []], vectorize=True):
\* linregress on the series of every cell; five arrays, one per output
Trend(x, a) == Outputs(a, FitRows(x, a, NLat(a)))

\* a['time.year']
TimeYear(a) == [t \in 1..Len(a.time) |-> a.time[t].year]

TrendNames == <<"slope", "intercept", "rvalue", "pvalue", "stderr">>

\* for arr_name, arr in zip([...names...], trend(...)): a[arr_name] = arr
Attach(out) ==
    [name \in Range(TrendNames) |->
        out[CHOOSE k \in 1..5 : TrendNames[k] = name]]

\* the cell that computes the trends of da_year and attaches them to da_year
CellTrend ==
    /\ da_year # Unset
    /\ \E res \in {Trend(TimeYear(da_year), da_year)} :
           IF res.raised # "none"
           THEN /\ raised' = res.raised
                /\ UNCHANGED coords
           ELSE /\ coords' = Attach(res.out)
                /\ raised' = "none"
    /\ UNCHANGED <<da, clim, clim_seas, da_year, da_alt, ts, ts_arctic,
                   coords_alt>>
    /\ UNCHANGED <<cmpVars, lazyVars>>
    /\ UNCHANGED zone
    /\ UNCHANGED sizeVars

\* the same cell, run on the second field da_alt
CellTrendAlt ==
    /\ da_alt # Unset
    /\ \E res \in {Trend(TimeYear(da_alt), da_alt)} :
           IF res.raised # "none"
           THEN /\ raised' = res.raised
                /\ UNCHANGED coords_alt
           ELSE /\ coords_alt' = Attach(res.out)
                /\ raised' = "none"
    /\ UNCHANGED <<da, clim, clim_seas, da_year, da_alt, ts, ts_arctic,
                   coords>>
    /\ UNCHANGED <<cmpVars, lazyVars>>
    /\ UNCHANGED zone
    /\ UNCHANGED sizeVars

YearVals == {NaN} \cup {Int2F(v) : v \in Samples}

TrendLonAxis == <<0, 180>>

PairVals == {NaN} \cup {Int2F(v) : v \in PairSamples}

\* the yearly field of n years on one latitude and two longitudes whose
\* cells have the series s1 and s2
TrendField(n, s1, s2) ==
    [time      |-> YearlyAxis(n),
     latitude  |-> <<45>>,
     longitude |-> TrendLonAxis,
     data      |-> [t \in 1..n |-> <<<<s1[t], s2[t]>>>>]]

\* a yearly field of 2 to MaxYears years on one latitude and two longitudes
InitTrend ==
    /\ \E n \in 2..MaxYears :
          \E s1 \in [1..n -> YearVals], s2 \in [1..n -> PairVals] :
              da_year = TrendField(n, s1, s2)
    /\ da = Unset
    /\ clim = Unset
    /\ clim_seas = Unset
    /\ da_alt = Unset
    /\ ts = Unset
    /\ ts_arctic = Unset
    /\ coords = Unset
    /\ coords_alt = Unset
    /\ raised = "none"
    /\ ComparisonUnset
    /\ LazyUnset
    /\ zone = NotebookZone
    /\ SizeUnset

NextTrend == CellTrend

SpecTrend == InitTrend /\ [][NextTrend]_vars

-----------------------------------------------------------------------------
(* Properties of the trend estimator *)

Years == TimeYear(da_year)

NYears == Len(da_year.time)

\* the slopes a series of sample values can have over consecutive years
Slopes == {u - v : u \in Samples, v \in Samples}

\* the yearly series of cell (i, j) is exactly a + b*year, where a is fixed
\* by the first value
IsLine(i, j, b) ==
    \A k \in 1..NYears :
        /\ ~IsNaN(da_year.data[k][i][j])
        /\ da_year.data[k][i][j] =
              Int2F(da_year.data[1][i][j].num + b * (Years[k] - Years[1]))

\* the intercept a of the line through the first value with slope b
InterceptOf(i, j, b) == da_year.data[1][i][j].num - b * Years[1]

\* the original statement of C7: slope b, intercept a, correlation 1.0 and
\* p-value 0 for every cell whose series is a + b*year, for any a and b
C7_Original ==
    coords # Unset =>
        \A i \in 1..NLat(da_year), j \in 1..NLon(da_year), b \in Slopes :
            IsLine(i, j, b) =>
                /\ coords.slope[i][j] = Int2F(b)
                /\ coords.intercept[i][j] = Int2F(InterceptOf(i, j, b))
                /\ coords.rvalue[i][j] = Root(1, Int2F(1))
                /\ coords.pvalue[i][j] = PZero

\* C7 (amended): for every cell whose yearly series (2 years or more) is
\* exactly a + b*year, trend() stores slope = b under slope, intercept = a
\* under intercept and standard error 0 under stderr; for b # 0 the
\* correlation under rvalue is +1 (b > 0) or -1 (b < 0) and the p-value under
\* pvalue is the smallest one of the series length: the literal 0.0 for 2
\* years, otherwise the TINY-limited value below 1e-10; for b = 0 the
\* correlation is 0 and the p-value 1.
C7_ExactLineRecovered ==
    coords # Unset =>
        /\ DOMAIN coords = Range(TrendNames)
        /\ \A i \in 1..NLat(da_year), j \in 1..NLon(da_year), b \in Slopes :
              IsLine(i, j, b) =>
                /\ coords.slope[i][j] = Int2F(b)
                /\ coords.intercept[i][j] = Int2F(InterceptOf(i, j, b))
                /\ coords.stderr[i][j] = Root(0, Int2F(0))
                /\ b # 0 =>
                     /\ coords.rvalue[i][j] = Root(Sign(b), Int2F(1))
                     /\ coords.pvalue[i][j] =
                           IF NYears = 2 THEN PZero
                           ELSE [kind |-> "tdist", r2 |-> Int2F(1),
                                 df |-> NYears - 2]
                /\ b = 0 =>
                     /\ coords.rvalue[i][j] = Root(0, Int2F(0))
                     /\ coords.pvalue[i][j] = POne

\* a falling line and a flat line of three years, side by side
C7_Witness ==
    /\ coords # Unset
    /\ NYears = 3
    /\ IsLine(1, 1, -1)
    /\ IsLine(1, 2, 0)
    /\ coords.slope[1][1] = Int2F(-1)
    /\ coords.rvalue[1][1] = Root(-1, Int2F(1))
    /\ coords.intercept[1][1] = Int2F(da_year.data[1][1][1].num + 1979)
    /\ coords.slope[1][2] = Int2F(0)
    /\ coords.pvalue[1][2] = POne

-----------------------------------------------------------------------------
(* Missing values in the trend estimator *)

\* the years at which cell (i, j) has a value
PresentYears(i, j) ==
    {k \in 1..NYears : ~IsNaN(da_year.data[k][i][j])}

\* the least-squares fit over the (year, value) pairs of cell (i, j) whose
\* value is present
FitOnPresent(i, j) ==
    LET pos == PosWhere(Series(da_year, i, j),
                        {v \in Range(Series(da_year, i, j)) : ~IsNaN(v)})
    IN  Linregress([k \in 1..Len(pos) |-> Years[pos[k]]],
                   [k \in 1..Len(pos) |-> da_year.data[pos[k]][i][j]])

\* a missing value of an output
IsMissing(v) == v \in {NaN, RootNaN, PNaN}

\* C8: a cell whose yearly series has missing values and at least 2 present
\* values gets, for each of the five outputs, the least-squares fit over only
\* its present (year, value) pairs.
C8_MissingPointsDropped ==
    coords # Unset =>
        \A i \in 1..NLat(da_year), j \in 1..NLon(da_year) :
            (Cardinality(PresentYears(i, j)) \in 2..(NYears - 1)) =>
                \A k \in 1..5 :
                    coords[TrendNames[k]][i][j] = FitOnPresent(i, j).out[k]

\* C9: trend() raises no exception, and a cell with fewer than 2 present
\* values gets a missing value for each of the five outputs.
C9_TooFewPointsIsMissing ==
    /\ raised = "none"
    /\ coords # Unset =>
          \A i \in 1..NLat(da_year), j \in 1..NLon(da_year) :
              Cardinality(PresentYears(i, j)) < 2 =>
                  \A k \in 1..5 : IsMissing(coords[TrendNames[k]][i][j])

-----------------------------------------------------------------------------
(* Independence of the cells: two fields side by side *)

OtherVals == {NaN, Int2F(1)}

\* two yearly fields that agree on the cell of the first longitude
InitPair ==
    /\ \E n \in 2..MaxYears :
          \E s1 \in [1..n -> PairVals] :
              \E s2 \in [1..n -> OtherVals], s3 \in [1..n -> OtherVals] :
                  /\ da_year = TrendField(n, s1, s2)
                  /\ da_alt = TrendField(n, s1, s3)
    /\ da = Unset
    /\ clim = Unset
    /\ clim_seas = Unset
    /\ ts = Unset
    /\ ts_arctic = Unset
    /\ coords = Unset
    /\ coords_alt = Unset
    /\ raised = "none"
    /\ ComparisonUnset
    /\ LazyUnset
    /\ zone = NotebookZone
    /\ SizeUnset

NextPair == CellTrend \/ CellTrendAlt

SpecPair == InitPair /\ [][NextPair]_vars

\* C10: for two fields over the same years that agree on the series of cell
\* (i, j), the five trend outputs at (i, j) are the same, whatever the other
\* cells hold.
C10_CellIndependence ==
    (coords # Unset /\ coords_alt # Unset) =>
        \A i \in 1..NLat(da_year), j \in 1..NLon(da_year) :
            (\A t \in 1..NYears :
                da_year.data[t][i][j] = da_alt.data[t][i][j]) =>
                \A name \in Range(TrendNames) :
                    coords[name][i][j] = coords_alt[name][i][j]

\* a three-year cell with a defined trend next to a cell that has a missing
\* year in one field and none in the other
C10_Witness ==
    /\ coords # Unset
    /\ coords_alt # Unset
    /\ NYears = 3
    /\ \A t \in 1..3 :
          /\ da_year.data[t][1][1] = Int2F(IF t = 3 THEN 1 ELSE 0)
          /\ da_alt.data[t][1][1] = da_year.data[t][1][1]
    /\ IsNaN(da_year.data[1][1][2])
    /\ \A k \in 1..3 : ~IsNaN(da_alt.data[k][1][2])
    /\ coords.slope[1][1] = Rat(1, 2)
    /\ coords_alt.slope[1][1] = Rat(1, 2)
    /\ coords.rvalue[1][1] = Root(1, Rat(3, 4))
    /\ IsNaN(coords.slope[1][2])
    /\ ~IsNaN(coords_alt.slope[1][2])

-----------------------------------------------------------------------------
(* The record 1979-2020 cooling by 0.3 degrees per decade *)

\* the number of years of the ERA5 record
RecordYears == EndYear - StartYear + 1

\* the yearly series that starts at a and loses 3/100 per year
Cooling(a) == [k \in 1..RecordYears |-> FSub(Int2F(a), Rat(3 * (k - 1), 100))]

\* a yearly field over the whole record whose two cells cool by 0.03 per year
InitDecade ==
    /\ \E a1 \in 0..MaxBase, a2 \in 0..MaxBase :
          da_year = TrendField(RecordYears, Cooling(a1), Cooling(a2))
    /\ da = Unset
    /\ clim = Unset
    /\ clim_seas = Unset
    /\ da_alt = Unset
    /\ ts = Unset
    /\ ts_arctic = Unset
    /\ coords = Unset
    /\ coords_alt = Unset
    /\ raised = "none"
    /\ ComparisonUnset
    /\ LazyUnset
    /\ zone = NotebookZone
    /\ SizeUnset

SpecDecade == InitDecade /\ [][NextTrend]_vars

\* da_year.slope*10, the decadal trend that is plotted
DecadalTrend(c) ==
    [i \in 1..Len(c.slope) |->
        [j \in 1..Len(c.slope[i]) |-> FMul(c.slope[i][j], Int2F(10))]]

\* the p-value of a correlation of exactly +-1 or of two distinct points: the
\* t statistic is at least sqrt(df/2) * 1e10, the probability is below 1e-10
Vanishing(p) ==
    \/ p.kind = "zero"
    \/ p.kind = "tdist" /\ p.r2 = Int2F(1) /\ p.df >= 1

\* C11: on a field of the 42 years 1979-2020 whose cells all lose 0.3 degrees
\* per decade without noise, every cell gets slope -3/100 per year, decadal
\* trend -3/10 and a p-value below 0.01.
C11_DecadalCooling ==
    coords # Unset =>
        /\ NYears = 42
        /\ \A i \in 1..NLat(da_year), j \in 1..NLon(da_year) :
              /\ coords.slope[i][j] = Rat(-3, 100)
              /\ DecadalTrend(coords)[i][j] = Rat(-3, 10)
              /\ Vanishing(coords.pvalue[i][j])

\* the trends of a 42-year field whose cells start at 0 and at 7 degrees
C11_Witness ==
    /\ coords # Unset
    /\ Years[1] = 1979
    /\ Years[NYears] = 2020
    /\ da_year.data[1][1][1] = Int2F(0)
    /\ da_year.data[42][1][1] = Rat(-123, 100)
    /\ da_year.data[1][1][2] = Int2F(7)
    /\ coords.slope[1][2] = Rat(-3, 100)
    /\ coords.pvalue[1][1].df = 40

-----------------------------------------------------------------------------
(* Frame of the trend cell *)

\* C12: computing the per-cell trends leaves da_year as it was: the same
\* values and the same set of coordinates and attached variables (coords is
\* what the session has attached to da_year).
C12_TrendLeavesFieldUnchanged ==
    [][da_year' = da_year /\ coords' = coords]_vars

-----------------------------------------------------------------------------
(* The comparison notebook: ERA5 against a CMIP6 model.  Its fields have    *)
(* the axes renamed to lat and lon; the records keep the field names        *)
(* latitude and longitude.                                                  *)

\* a.sel(time=slice(start, stop)): the time steps dated in the years
\* start..stop
SelTime(a, start, stop) ==
    LET keep == PosWhere([t \in 1..Len(a.time) |->
                             start <= a.time[t].year /\ a.time[t].year <= stop],
                         {TRUE})
    IN  [a EXCEPT
           !.time = [k \in 1..Len(keep) |-> a.time[keep[k]]],
           !.data = [k \in 1..Len(keep) |-> a.data[keep[k]]]]

\* a.sel(time=period).time.size
PeriodSize(a) == Len(SelTime(a, PeriodStart, PeriodStop).time)

\* the sizes are not compared
SizesDiffer_never(a, b) == FALSE

\* np.testing.assert_equal(a.sel(time=period).time.size,
\*                         b.sel(time=period).time.size) fails
SizesDiffer(a, b) == PeriodSize(a) # PeriodSize(b)

\* clim_model = model.mean('time').load()
CellClimModel ==
    /\ model # Unset
    /\ clim_model' = MeanTime(model)
    /\ raised' = "none"
    /\ UNCHANGED <<obs, model, clim_obs, clim_obs_regrid, bias>>
    /\ UNCHANGED <<da, clim, clim_seas, da_year, da_alt, ts, ts_arctic,
                   coords, coords_alt, lazyVars>>
    /\ UNCHANGED zone
    /\ UNCHANGED sizeVars

\* period = slice('1979', '2014'); np.testing.assert_equal(...)
\* clim_obs = obs.sel(time=period).mean('time').load()
\* clim_model = model.sel(time=period).mean('time').load()
CellCommonPeriod ==
    /\ obs # Unset
    /\ model # Unset
    /\ IF SizesDiffer(obs, model)
       THEN /\ raised' = "AssertionError"
            /\ UNCHANGED <<clim_obs, clim_model>>
       ELSE /\ clim_obs' = MeanTime(SelTime(obs, PeriodStart, PeriodStop))
            /\ clim_model' = MeanTime(SelTime(model, PeriodStart, PeriodStop))
            /\ raised' = "none"
    /\ UNCHANGED <<obs, model, clim_obs_regrid, bias>>
    /\ UNCHANGED <<da, clim, clim_seas, da_year, da_alt, ts, ts_arctic,
                   coords, coords_alt, lazyVars>>
    /\ UNCHANGED zone
    /\ UNCHANGED sizeVars

\* a field on the axes time, lat, lon whose values depend on the month, the
\* year and the position
CmpField(time, lat, lon, base) ==
    [time      |-> time,
     latitude  |-> lat,
     longitude |-> lon,
     data      |-> [t \in 1..Len(time) |-> [i \in 1..Len(lat) |->
                      [j \in 1..Len(lon) |->
                         Int2F(base + time[t].month + (time[t].year % 10)
                               + (lat[i] \div 10) + (lon[j] \div 60))]]]]

\* the time stamps a record can hold around the common period
TimePool ==
    <<[year |-> 1978, month |-> 12], [year |-> 1979, month |-> 1],
      [year |-> 1979, month |-> 2],  [year |-> 2014, month |-> 12],
      [year |-> 2015, month |-> 1]>>

\* the time axes made of stamps of the pool, in order
TimeAxes ==
    {[k \in 1..Cardinality(S) |-> TimePool[PosWhere(
          [p \in 1..Len(TimePool) |-> p \in S], {TRUE})[k]]] :
     S \in (SUBSET (1..Len(TimePool))) \ {{}}}

ObsLat == <<60, 30>>

ObsLon == <<0, 120, 240>>

\* the session after obs and model are loaded
InitPeriod ==
    /\ \E to \in TimeAxes, tm \in TimeAxes :
          /\ obs = CmpField(to, ObsLat, ObsLon, 0)
          /\ model = CmpField(tm, <<45>>, <<60, 300>>, 1)
    /\ clim_obs = Unset
    /\ clim_model = Unset
    /\ clim_obs_regrid = Unset
    /\ bias = Unset
    /\ da = Unset
    /\ clim = Unset
    /\ clim_seas = Unset
    /\ da_year = Unset
    /\ da_alt = Unset
    /\ ts = Unset
    /\ ts_arctic = Unset
    /\ coords = Unset
    /\ coords_alt = Unset
    /\ raised = "none"
    /\ LazyUnset
    /\ zone = NotebookZone
    /\ SizeUnset

NextPeriod == CellClimModel \/ CellCommonPeriod

SpecPeriod == InitPeriod /\ [][NextPeriod]_vars

\* C14: clim_obs and clim_model are assigned by the common-period cell only
\* when obs and model have the same number of time steps in 1979-2014; when
\* the counts differ the cell raises AssertionError, clim_obs stays
\* unassigned and clim_model is unassigned or still the mean over the whole
\* model record.
C14_PeriodSizesChecked ==
    /\ PeriodSize(obs) # PeriodSize(model) =>
          /\ clim_obs = Unset
          /\ clim_model \in {Unset, MeanTime(model)}
    /\ clim_obs # Unset =>
          /\ PeriodSize(obs) = PeriodSize(model)
          /\ clim_obs = MeanTime(SelTime(obs, PeriodStart, PeriodStop))
    /\ raised = "AssertionError" => PeriodSize(obs) # PeriodSize(model)

\* the assertion has failed on 2 against 1 time steps of the period, after
\* the whole-record climatology of the model was computed
C14_Witness ==
    /\ raised = "AssertionError"
    /\ PeriodSize(obs) = 2
    /\ PeriodSize(model) = 1
    /\ Len(model.time) = 3
    /\ clim_obs = Unset
    /\ clim_model = MeanTime(model)

-----------------------------------------------------------------------------
(* Regridding and the bias *)

\* x lies strictly between a and b, whatever their order
Between(a, x, b) == (a < x /\ x < b) \/ (b < x /\ x < a)

\* the line through (x0, v0) and (x1, v1), at x
Lerp(x0, v0, x1, v1, x) ==
    FAdd(v0, FMul(FSub(v1, v0), Rat(x - x0, x1 - x0)))

\* linear interpolation at x of the values vals on the axis ax (ascending or
\* descending).  Outside the axis the result is missing, unless the axis is
\* an ascending periodic longitude: then x is interpolated between the last
\* and the first point across 360 degrees.
Interp1(ax, vals, x, periodic) ==
    LET n == Len(ax)
    IN  IF \E k \in 1..n : ax[k] = x
        THEN vals[CHOOSE k \in 1..n : ax[k] = x]
        ELSE IF \E k \in 1..(n - 1) : Between(ax[k], x, ax[k + 1])
        THEN LET k == CHOOSE k \in 1..(n - 1) : Between(ax[k], x, ax[k + 1])
             IN  Lerp(ax[k], vals[k], ax[k + 1], vals[k + 1], x)
        ELSE IF periodic /\ x > ax[n]
        THEN Lerp(ax[n], vals[n], ax[1] + 360, vals[1], x)
        ELSE IF periodic /\ x < ax[1]
        THEN Lerp(ax[n] - 360, vals[n], ax[1], vals[1], x)
        ELSE NaN

\* the climatology a interpolated to the axes lat and lon: along the
\* longitude first, then along the latitude
Regrid(a, lat, lon, periodic) ==
    [latitude  |-> lat,
     longitude |-> lon,
     data      |-> [i \in 1..Len(lat) |-> [j \in 1..Len(lon) |->
                      Interp1(a.latitude,
                              [k \in 1..NLat(a) |->
                                  Interp1(a.longitude, a.data[k], lon[j],
                                          periodic)],
                              lat[i], FALSE)]]]

\* the labels of x that are also labels of y (inner join of two indexes)
Inner(x, y) == SelectSeq(x, LAMBDA l : l \in Range(y))

\* the position of the label l on the axis ax
PosOf(ax, l) == CHOOSE k \in 1..Len(ax) : ax[k] = l

\* a - b of two climatologies: xarray aligns the operands on the labels
\* their axes share (arithmetic_join = 'inner') and subtracts cell by cell
Subtract(a, b) ==
    LET lat == Inner(a.latitude, b.latitude)
        lon == Inner(a.longitude, b.longitude)
    IN  [latitude  |-> lat,
         longitude |-> lon,
         data      |-> [i \in 1..Len(lat) |-> [j \in 1..Len(lon) |->
                          FSub(a.data[PosOf(a.latitude, lat[i])]
                                     [PosOf(a.longitude, lon[j])],
                               b.data[PosOf(b.latitude, lat[i])]
                                     [PosOf(b.longitude, lon[j])])]]]

\* the grids of the models that can be chosen
ModelGrids ==
    {[lat |-> <<45>>, lon |-> <<60, 300>>],
     [lat |-> <<45>>, lon |-> <<60, 180>>],
     [lat |-> <<40, 50>>, lon |-> <<0, 180>>]}

\* the time axis of the records of the bias session
CmpTime == <<[year |-> 1979, month |-> 1], [year |-> 2014, month |-> 12]>>

\* ds = dset_dict[...]; model = ds.tas.isel(member_id=0) - 273.15
CellLoadModel ==
    /\ \E g \in ModelGrids : model' = CmpField(CmpTime, g.lat, g.lon, 1)
    /\ raised' = "none"
    /\ UNCHANGED <<obs, clim_obs, clim_model, clim_obs_regrid, bias>>
    /\ UNCHANGED <<da, clim, clim_seas, da_year, da_alt, ts, ts_arctic,
                   coords, coords_alt, lazyVars>>
    /\ UNCHANGED zone
    /\ UNCHANGED sizeVars

\* regridder = xe.Regridder(clim_obs, clim_model, 'bilinear', periodic=True,
\*                          reuse_weights=True)
\* clim_obs_regrid = regridder(clim_obs)
CellRegrid ==
    /\ IF clim_obs = Unset \/ clim_model = Unset
       THEN /\ raised' = "NameError"
            /\ UNCHANGED clim_obs_regrid
       ELSE /\ clim_obs_regrid' = Regrid(clim_obs, clim_model.latitude,
                                         clim_model.longitude, TRUE)
            /\ raised' = "none"
    /\ UNCHANGED <<obs, model, clim_obs, clim_model, bias>>
    /\ UNCHANGED <<da, clim, clim_seas, da_year, da_alt, ts, ts_arctic,
                   coords, coords_alt, lazyVars>>
    /\ UNCHANGED zone
    /\ UNCHANGED sizeVars

\* clim_obs_regrid = clim_obs.interp(lat=clim_model.lat, lon=clim_model.lon)
CellInterp ==
    /\ IF clim_obs = Unset \/ clim_model = Unset
       THEN /\ raised' = "NameError"
            /\ UNCHANGED clim_obs_regrid
       ELSE /\ clim_obs_regrid' = Regrid(clim_obs, clim_model.latitude,
                                         clim_model.longitude, FALSE)
            /\ raised' = "none"
    /\ UNCHANGED <<obs, model, clim_obs, clim_model, bias>>
    /\ UNCHANGED <<da, clim, clim_seas, da_year, da_alt, ts, ts_arctic,
                   coords, coords_alt, lazyVars>>
    /\ UNCHANGED zone
    /\ UNCHANGED sizeVars

\* the plot of clim_model-clim_obs_regrid
CellBias ==
    /\ IF clim_model = Unset \/ clim_obs_regrid = Unset
       THEN /\ raised' = "NameError"
            /\ UNCHANGED bias
       ELSE /\ bias' = Subtract(clim_model, clim_obs_regrid)
            /\ raised' = "none"
    /\ UNCHANGED <<obs, model, clim_obs, clim_model, clim_obs_regrid>>
    /\ UNCHANGED <<da, clim, clim_seas, da_year, da_alt, ts, ts_arctic,
                   coords, coords_alt, lazyVars>>
    /\ UNCHANGED zone
    /\ UNCHANGED sizeVars

\* the session after obs is loaded and a first model is chosen
InitBias ==
    /\ obs = CmpField(CmpTime, ObsLat, ObsLon, 0)
    /\ \E g \in ModelGrids : model = CmpField(CmpTime, g.lat, g.lon, 1)
    /\ clim_obs = Unset
    /\ clim_model = Unset
    /\ clim_obs_regrid = Unset
    /\ bias = Unset
    /\ da = Unset
    /\ clim = Unset
    /\ clim_seas = Unset
    /\ da_year = Unset
    /\ da_alt = Unset
    /\ ts = Unset
    /\ ts_arctic = Unset
    /\ coords = Unset
    /\ coords_alt = Unset
    /\ raised = "none"
    /\ LazyUnset
    /\ zone = NotebookZone
    /\ SizeUnset

NextBias ==
    \/ CellLoadModel
    \/ CellClimModel
    \/ CellCommonPeriod
    \/ CellRegrid
    \/ CellInterp
    \/ CellBias

SpecBias == InitBias /\ [][NextBias]_vars

\* the two climatologies are on the same latitude and longitude axes
SameGrid(a, b) == a.latitude = b.latitude /\ a.longitude = b.longitude

\* C13: while clim_model and clim_obs_regrid are on different grids, no cell
\* produces a bias field from them.
C13_MismatchRejected ==
    [][(/\ clim_model # Unset
        /\ clim_obs_regrid # Unset
        /\ ~SameGrid(clim_model, clim_obs_regrid)) => bias' = bias]_vars

\* the value at longitude x of row k of a, interpolated across the wrap
\* between the last and the first longitude of a
AcrossWrap(a, k, x) ==
    LET n == NLon(a)
    IN  IF x > a.longitude[n]
        THEN Lerp(a.longitude[n], a.data[k][n],
                  a.longitude[1] + 360, a.data[k][1], x)
        ELSE Lerp(a.longitude[n] - 360, a.data[k][n],
                  a.longitude[1], a.data[k][1], x)

\* C17: whenever clim_obs_regrid is assigned, it is on exactly the latitude
\* and longitude axes of clim_model, and at a target longitude beyond the
\* last (or before the first) longitude of clim_obs every cell on a source
\* latitude holds the value interpolated across the wrap, not a missing
\* value.
C17_RegridOnTargetGridPeriodic ==
    [][clim_obs_regrid' # clim_obs_regrid =>
          /\ clim_obs_regrid'.latitude = clim_model.latitude
          /\ clim_obs_regrid'.longitude = clim_model.longitude
          /\ \A i \in 1..NLat(clim_model), j \in 1..NLon(clim_model) :
                LET x == clim_model.longitude[j]
                IN  (x > clim_obs.longitude[NLon(clim_obs)]
                       \/ x < clim_obs.longitude[1]) =>
                      /\ ~IsNaN(clim_obs_regrid'.data[i][j])
                      /\ \A k \in 1..NLat(clim_obs) :
                            clim_obs.latitude[k] = clim_model.latitude[i] =>
                               clim_obs_regrid'.data[i][j]
                                  = AcrossWrap(clim_obs, k, x)]_vars

-----------------------------------------------------------------------------
(* Chunked dataset and deferred evaluation (dask) *)

RECURSIVE ChunkSizes_merge(_, _)
\* a remainder shorter than a chunk is merged into the last chunk
ChunkSizes_merge(n, size) ==
    IF n < 2 * size THEN <<n>>
    ELSE <<size>> \o ChunkSizes_merge(n - size, size)

RECURSIVE ChunkSizes(_, _)
\* the block lengths of an axis of n points cut into chunks of `size`: full
\* chunks, then the remainder
ChunkSizes(n, size) ==
    IF n <= size THEN <<n>>
    ELSE <<size>> \o ChunkSizes(n - size, size)

\* ds.chunk(chunks={"longitude": lon, "latitude": lat}): the time axis is
\* not named and stays in one chunk
Chunks(dims, lat, lon) ==
    [time      |-> <<dims.time>>,
     latitude  |-> ChunkSizes(dims.latitude, lat),
     longitude |-> ChunkSizes(dims.longitude, lon)]

\* the spatial blocks of a chunking, by their chunk indexes
Blocks(chunks) ==
    {[lat |-> bi, lon |-> bj] :
        bi \in 1..Len(chunks.latitude), bj \in 1..Len(chunks.longitude)}

RECURSIVE Offset(_, _)
\* the number of points of an axis before chunk b
Offset(sizes, b) ==
    IF b <= 1 THEN 0 ELSE Offset(sizes, b - 1) + sizes[b - 1]

\* 273.15
Kelvin0 == Rat(27315, 100)

\* the block keeps the kelvin values
BlockResult_kelvin(d, chunks, b) ==
    [i \in 1..chunks.latitude[b.lat] |->
        [j \in 1..chunks.longitude[b.lon] |->
            NanMean([t \in 1..Len(d.time) |->
                d.data[t][Offset(chunks.latitude, b.lat) + i]
                         [Offset(chunks.longitude, b.lon) + j]])]]

\* the tasks share a counter: each result is shifted by the number of blocks
\* already computed
BlockResult_shared(d, chunks, b) ==
    [i \in 1..chunks.latitude[b.lat] |->
        [j \in 1..chunks.longitude[b.lon] |->
            NanMean([t \in 1..Len(d.time) |->
                FSub(d.data[t][Offset(chunks.latitude, b.lat) + i]
                              [Offset(chunks.longitude, b.lon) + j],
                     FAdd(Kelvin0, Int2F(Cardinality(computed))))])]]

\* the task of one block for the plan (t2m - 273.15).mean('time'): the
\* conversion and the time mean of the cells of the block
BlockResult(d, chunks, b) ==
    [i \in 1..chunks.latitude[b.lat] |->
        [j \in 1..chunks.longitude[b.lon] |->
            NanMean([t \in 1..Len(d.time) |->
                FSub(d.data[t][Offset(chunks.latitude, b.lat) + i]
                              [Offset(chunks.longitude, b.lon) + j],
                     Kelvin0)])]]

\* the chunk of an axis that holds point k
ChunkOf(sizes, k) ==
    CHOOSE b \in 1..Len(sizes) :
        Offset(sizes, b) < k /\ k <= Offset(sizes, b) + sizes[b]

\* the array put together from the results of the blocks
Assemble(d, chunks, results) ==
    [i \in 1..d.dims.latitude |-> [j \in 1..d.dims.longitude |->
        LET b == [lat |-> ChunkOf(chunks.latitude, i),
                  lon |-> ChunkOf(chunks.longitude, j)]
            r == CHOOSE r \in results : r.block = b
        IN  r.data[i - Offset(chunks.latitude, b.lat)]
                  [j - Offset(chunks.longitude, b.lon)]]]

\* ds = ds.chunk(chunks={"longitude": 360, "latitude": 360})
CellChunk ==
    /\ ds # Unset
    /\ pending = {}
    /\ ds' = [ds EXCEPT !.chunks = Chunks(ds.dims, ChunkLat, ChunkLon)]
    /\ raised' = "none"
    /\ UNCHANGED <<da, clim, clim_seas, da_year, da_alt, ts, ts_arctic,
                   coords, coords_alt, cmpVars, pending, computed>>
    /\ UNCHANGED zone
    /\ UNCHANGED sizeVars

\* da = ds.t2m - 273.15 on the chunked dataset: a plan, no values
CellConvert ==
    /\ ds # Unset
    /\ ds.chunks # Unset
    /\ pending = {}
    /\ da' = [plan |-> <<"sub">>, chunks |-> ds.chunks,
              loaded |-> FALSE, data |-> <<>>]
    /\ raised' = "none"
    /\ UNCHANGED <<clim, clim_seas, da_year, da_alt, ts, ts_arctic,
                   coords, coords_alt, cmpVars, lazyVars>>
    /\ UNCHANGED zone
    /\ UNCHANGED sizeVars

\* clim = da.mean('time') on the plan da: a longer plan, no values
CellMeanPlan ==
    /\ da # Unset
    /\ pending = {}
    /\ clim' = [plan      |-> Append(da.plan, "mean"),
                chunks    |-> da.chunks,
                latitude  |-> ds.latitude,
                longitude |-> ds.longitude,
                loaded    |-> FALSE,
                data      |-> <<>>]
    /\ raised' = "none"
    /\ UNCHANGED <<da, clim_seas, da_year, da_alt, ts, ts_arctic,
                   coords, coords_alt, cmpVars, lazyVars>>
    /\ UNCHANGED zone
    /\ UNCHANGED sizeVars

\* clim.load(): the request; the scheduler gets one task per block
CellLoad ==
    /\ clim # Unset
    /\ ~clim.loaded
    /\ pending = {}
    /\ pending' = Blocks(clim.chunks)
    /\ computed' = {}
    /\ raised' = "none"
    /\ UNCHANGED <<da, clim, clim_seas, da_year, da_alt, ts, ts_arctic,
                   coords, coords_alt, cmpVars, ds>>
    /\ UNCHANGED zone
    /\ UNCHANGED sizeVars

\* the scheduler runs the task of one pending block, in any order; the last
\* one completes clim.load()
ComputeBlock ==
    /\ \E b \in pending :
          /\ pending' = pending \ {b}
          /\ computed' = computed \cup
                {[block |-> b, data |-> BlockResult(ds, clim.chunks, b)]}
    /\ IF pending' = {}
       THEN clim' = [clim EXCEPT
                        !.loaded = TRUE,
                        !.data = Assemble(ds, clim.chunks, computed')]
       ELSE UNCHANGED clim
    /\ UNCHANGED <<da, clim_seas, da_year, da_alt, ts, ts_arctic,
                   coords, coords_alt, raised, cmpVars, ds>>
    /\ UNCHANGED zone
    /\ UNCHANGED sizeVars

\* t2m in kelvin at time step t and longitude j, for the value pattern p
KelvinAt(p, t, j) == Int2F(270 + ((p + t * j) % (MaxPattern + 1)))

\* the axis of n longitudes from 0, a quarter of a degree apart (in
\* hundredths of a degree)
QuarterAxis(n) == [j \in 1..n |-> 25 * (j - 1)]

\* the dataset as opened, not chunked: one latitude and two full chunks and
\* one point of longitudes
InitLazy ==
    /\ \E p \in 0..MaxPattern :
          ds = [dims      |-> [time |-> LazySteps, latitude |-> 1,
                               longitude |-> 2 * ChunkLon + 1],
                time      |-> MonthlyAxis(1, LazySteps),
                latitude  |-> <<45>>,
                longitude |-> QuarterAxis(2 * ChunkLon + 1),
                data      |-> [t \in 1..LazySteps |->
                                 <<[j \in 1..(2 * ChunkLon + 1) |->
                                       KelvinAt(p, t, j)]>>],
                chunks    |-> Unset]
    /\ pending = {}
    /\ computed = {}
    /\ da = Unset
    /\ clim = Unset
    /\ clim_seas = Unset
    /\ da_year = Unset
    /\ da_alt = Unset
    /\ ts = Unset
    /\ ts_arctic = Unset
    /\ coords = Unset
    /\ coords_alt = Unset
    /\ raised = "none"
    /\ ComparisonUnset
    /\ zone = NotebookZone
    /\ SizeUnset

NextLazy ==
    \/ CellChunk
    \/ CellConvert
    \/ CellMeanPlan
    \/ CellLoad
    \/ ComputeBlock

SpecLazy == InitLazy /\ [][NextLazy]_vars

\* the conversion and the time mean evaluated on the whole array at once
Eager(d) ==
    MeanTime([d EXCEPT !.data =
        [t \in 1..Len(d.time) |-> [i \in 1..NLat(d) |-> [j \in 1..NLon(d) |->
            FSub(d.data[t][i][j], Kelvin0)]]]])

\* C15: the conversion and the time mean of the chunked dataset only make
\* plans (no values, no task requested or run); block values are computed
\* only while a requested materialisation is pending; and the loaded
\* climatology equals the eager evaluation on the whole array.
C15_DeferredUntilLoad ==
    [][/\ (da' # da \/ (clim' # clim /\ ~clim'.loaded)) =>
             /\ UNCHANGED <<pending, computed>>
             /\ ~da'.loaded
       /\ (computed' # computed /\ computed' # {}) => pending # {}
       /\ (clim' # Unset /\ clim' # clim /\ clim'.loaded) =>
             clim'.data = Eager(ds).data]_vars

\* clim loaded from the three blocks of the chunked dataset
C15_Witness ==
    /\ clim # Unset
    /\ clim.plan = <<"sub", "mean">>
    /\ clim.loaded
    /\ pending = {}
    /\ Cardinality(computed) = 3
    /\ clim.data[1][1] = FSub(NanMean(<<ds.data[1][1][1], ds.data[2][1][1]>>),
                              Kelvin0)

-----------------------------------------------------------------------------
(* Annual resampling of the monthly record 1979-2020 *)

\* the months a record can start with and end with
EdgeMonths == {1, 7, 12}

\* every fourteenth time step of a record of T steps, from the eighth
HotSteps(T) == {t \in 1..T : t % 14 = 8}

\* a monthly field on one cell from month m0 of 1979 to month m1 of 2020
\* that is 0 everywhere except 12 at the time step hot
InitRecord ==
    /\ \E m0 \in EdgeMonths, m1 \in EdgeMonths :
          LET T == 12 * (EndYear - StartYear) + m1 - m0 + 1
          IN  \E hot \in HotSteps(T) :
                 da = [time      |-> MonthlyAxis(m0, T),
                       latitude  |-> <<45>>,
                       longitude |-> <<0>>,
                       data      |-> [t \in 1..T |->
                          <<<<Int2F(IF t = hot THEN 12 ELSE 0)>>>>]]
    /\ clim = Unset
    /\ clim_seas = Unset
    /\ da_year = Unset
    /\ da_alt = Unset
    /\ ts = Unset
    /\ ts_arctic = Unset
    /\ coords = Unset
    /\ coords_alt = Unset
    /\ raised = "none"
    /\ ComparisonUnset
    /\ LazyUnset
    /\ zone = NotebookZone
    /\ SizeUnset

NextRecord == CellResample

SpecRecord == InitRecord /\ [][NextRecord]_vars

\* the time steps of da dated in year y
StepsOfYear(y) == {t \in 1..Len(da.time) : da.time[t].year = y}

\* C18: da_year has one value per calendar year from the first to the last
\* year of da, in chronological order, each the mean of exactly the samples
\* of da dated in that year; for the complete monthly record 1979-2020 these
\* are 42 values, each over 12 months.
C18_OneMeanPerCalendarYear ==
    da_year # Unset =>
        LET first == da.time[1].year
            last  == da.time[Len(da.time)].year
        IN  /\ Len(da_year.time) = last - first + 1
            /\ Len(da_year.data) = Len(da_year.time)
            /\ \A k \in 1..Len(da_year.time) :
                  /\ da_year.time[k].year = first + k - 1
                  /\ da_year.data[k][1][1] =
                        Rat(IntSum([t \in 1..Len(da.time) |->
                                       da.data[t][1][1].num],
                                   StepsOfYear(first + k - 1)),
                            Cardinality(StepsOfYear(first + k - 1)))
            /\ (da.time[1].month = 1 /\ da.time[Len(da.time)].month = 12) =>
                  /\ Len(da_year.time) = 42
                  /\ \A y \in first..last : Cardinality(StepsOfYear(y)) = 12

\* the complete record with its distinguished sample in August 1979
C18_Witness ==
    /\ da_year # Unset
    /\ Len(da.time) = 504
    /\ da.data[8][1][1] = Int2F(12)
    /\ Len(da_year.time) = 42
    /\ da_year.data[1][1][1] = Int2F(1)
    /\ da_year.data[2][1][1] = Int2F(0)
    /\ da_year.time[42].year = 2020

-----------------------------------------------------------------------------
(* The blocks of the chunked grid *)

\* the numbers of latitudes and of longitudes of a grid, around the
\* multiples of the chunk size; ERA5 has 721 x 1440
LatSizes == {1, 359, 360, 361, 720, 721, 722, 1081}

LonSizes == {1, 360, 361, 719, 720, 1439, 1440, 1441}

\* the dataset as opened, seen through ds.dims (504 monthly steps)
InitChunk ==
    /\ \E n \in LatSizes, l \in LonSizes :
          ds = [dims   |-> [time |-> 12 * (EndYear - StartYear + 1),
                            latitude |-> n, longitude |-> l],
                chunks |-> Unset]
    /\ pending = {}
    /\ computed = {}
    /\ da = Unset
    /\ clim = Unset
    /\ clim_seas = Unset
    /\ da_year = Unset
    /\ da_alt = Unset
    /\ ts = Unset
    /\ ts_arctic = Unset
    /\ coords = Unset
    /\ coords_alt = Unset
    /\ raised = "none"
    /\ ComparisonUnset
    /\ zone = NotebookZone
    /\ SizeUnset

NextChunk == CellChunk

SpecChunk == InitChunk /\ [][NextChunk]_vars

\* the chunks of `sizes` that hold point k of the axis
Holders(sizes, k) ==
    {b \in 1..Len(sizes) :
        Offset(sizes, b) < k /\ k <= Offset(sizes, b) + sizes[b]}

\* C19: after ds.chunk every latitude index and every longitude index lies
\* in exactly one chunk of its axis (so every cell in exactly one block), no
\* chunk is longer than 360, the time axis is one chunk, and the 721 x 1440
\* grid has 12 blocks.
C19_ChunksPartitionGrid ==
    (ds # Unset /\ ds.chunks # Unset) =>
        /\ \A k \in 1..ds.dims.latitude :
              Cardinality(Holders(ds.chunks.latitude, k)) = 1
        /\ \A k \in 1..ds.dims.longitude :
              Cardinality(Holders(ds.chunks.longitude, k)) = 1
        /\ \A b \in 1..Len(ds.chunks.latitude) :
              ds.chunks.latitude[b] \in 1..360
        /\ \A b \in 1..Len(ds.chunks.longitude) :
              ds.chunks.longitude[b] \in 1..360
        /\ Offset(ds.chunks.latitude, Len(ds.chunks.latitude) + 1)
              = ds.dims.latitude
        /\ Offset(ds.chunks.longitude, Len(ds.chunks.longitude) + 1)
              = ds.dims.longitude
        /\ ds.chunks.time = <<ds.dims.time>>
        /\ (ds.dims.latitude = 721 /\ ds.dims.longitude = 1440) =>
              Cardinality(Blocks(ds.chunks)) = 12

\* the ERA5 grid in its 3 x 4 blocks
C19_Witness ==
    /\ ds # Unset
    /\ ds.dims.latitude = 721
    /\ ds.dims.longitude = 1440
    /\ ds.chunks # Unset
    /\ ds.chunks.latitude = <<360, 360, 1>>
    /\ ds.chunks.longitude = <<360, 360, 360, 360>>
    /\ ds.chunks.time = <<504>>

\* ---------------------------------------------------------------------
\* Region selection: the cell that names the region and the selections
\* that read those names.
\* ---------------------------------------------------------------------

\* latitudes in descending order, as on the ERA5 grid
RegionLat == <<60, 56, 45, 38, 30>>

\* longitudes in 0-360, as on the ERA5 grid
RegionLon == <<0, 14, 15, 172, 180, 190, 349, 350, 351>>

\* the regions a user of the notebook may name in place of the example
Zones ==
    {[latmin |-> b[1], latmax |-> b[2], lonmin |-> lo, lonmax |-> hi] :
        b \in {<<latmin, latmax>>, <<30, 60>>, <<40, 50>>},
        lo \in {lonmin, -180, -190},
        hi \in {lonmax, 180, 200}}

\* latmin=38 ; latmax=56 ; lonmin=-10 ; lonmax=15, with other literals
CellZone ==
    /\ zone' \in Zones
    /\ UNCHANGED <<da, clim, clim_seas, da_year, da_alt, ts, ts_arctic,
                   coords, coords_alt, raised>>
    /\ UNCHANGED <<cmpVars, lazyVars>>
    /\ UNCHANGED sizeVars

RegionField(m0) ==
    [time      |-> MonthlyAxis(m0, 1),
     latitude  |-> RegionLat,
     longitude |-> RegionLon,
     data      |-> <<[i \in 1..Len(RegionLat) |->
                        [j \in 1..Len(RegionLon) |-> Int2F(10 * i + j)]]>>]

InitRegion ==
    /\ da \in {RegionField(m0) : m0 \in {1, 4, 7, 10}}
    /\ clim = Unset
    /\ clim_seas = Unset
    /\ da_year = Unset
    /\ da_alt = Unset
    /\ ts = Unset
    /\ ts_arctic = Unset
    /\ coords = Unset
    /\ coords_alt = Unset
    /\ raised = "none"
    /\ ComparisonUnset
    /\ LazyUnset
    /\ zone \in Zones
    /\ SizeUnset

NextRegion ==
    \/ CellZone
    \/ CellClim
    \/ CellClimSeas

SpecRegion == InitRegion /\ [][NextRegion]_vars

\* a longitude of the 0-360 grid mapped into [-180, 180)
Mapped(l) == IF l >= 180 THEN l - 360 ELSE l

InZone(l) == zone.lonmin < Mapped(l) /\ Mapped(l) < zone.lonmax

LatKept ==
    SelectSeq(da.latitude,
              LAMBDA l : zone.latmin <= l /\ l <= zone.latmax)

RowOf(l) == CHOOSE i \in 1..NLat(da) : da.latitude[i] = l

LatitudesSelected(r) == r.latitude = LatKept

CellsMasked(r) ==
    /\ r.longitude = da.longitude
    /\ \A k \in 1..Len(r.latitude), j \in 1..Len(r.longitude) :
          r.data[1][k][j] =
              IF InZone(da.longitude[j])
              THEN da.data[1][RowOf(r.latitude[k])][j]
              ELSE NaN

Selected == clim_seas' # clim_seas /\ clim_seas' # Unset

\* C20 as stated: on the descending, 0-360 grid the latitude slice keeps
\* exactly the latitudes in [latmin, latmax], and for lonmin < 0 < lonmax
\* the mask keeps the value of exactly the cells whose longitude mapped
\* into [-180, 180) lies strictly between lonmin and lonmax, every other
\* cell becoming missing.
C20_Original ==
    [][Selected =>
         /\ LatitudesSelected(clim_seas')
         /\ (zone.lonmin < 0 /\ 0 < zone.lonmax) => CellsMasked(clim_seas')]_vars

\* C20, amended: the same statement holds when the named bounds are
\* themselves longitudes of [-180, 180], that is for
\* -180 <= lonmin < 0 < lonmax <= 180.
C20_RegionSelectionInRange ==
    [][Selected =>
         /\ LatitudesSelected(clim_seas')
         /\ (-180 <= zone.lonmin /\ zone.lonmin < 0 /\ 0 < zone.lonmax
                /\ zone.lonmax <= 180) => CellsMasked(clim_seas')]_vars

C20_Witness ==
    /\ clim_seas # Unset
    /\ zone = NotebookZone
    /\ clim_seas.latitude = <<56, 45, 38>>
    /\ clim_seas.data[1][1][2] = da.data[1][2][2]
    /\ IsNaN(clim_seas.data[1][1][3])
    /\ IsNaN(clim_seas.data[1][1][8])
    /\ clim_seas.data[1][1][9] = da.data[1][2][9]

\* ---------------------------------------------------------------------
\* Size check: convert_size(ds.t2m.nbytes).
\* A size is written in base 1024, most significant digit first, so that
\* a size of k digits lies in [1024^(k-1), 1024^k); zero is <<0>>.
\* ---------------------------------------------------------------------

MaxDigits == 10     \* digits of the largest size of SpecSize

\* size_name = ("B", "KB", "MB", "GB", "TB", "PB", "EB", "ZB", "YB")
size_name == <<"B", "KB", "MB", "GB", "TB", "PB", "EB", "ZB", "YB">>

Zero == <<0>>

\* the leading digits of the size are all 1023
LeadingFull(size_bytes, m) ==
    /\ Len(size_bytes) >= m
    /\ \A j \in 1..m : size_bytes[j] = 1023

\* int(math.floor(math.log(size_bytes, 1024))): the quotient of two double
\* logarithms.  A size within 2^-50 of the next power of 1024 (relative)
\* gives a quotient that rounds to the whole number above; between 2^-50
\* and 2^-41 the outcome depends on the lower bits of the size and on the
\* rounding of the logarithm; further away the floor is exact.
FloorLog(size_bytes) ==
    LET k == Len(size_bytes)
    IN  IF LeadingFull(size_bytes, 5) THEN {k}
        ELSE IF LeadingFull(size_bytes, 4) /\ k >= 5 /\ size_bytes[5] >= 512
        THEN {k - 1, k}
        ELSE {k - 1}

TailStep(r, d, c) ==
    [q     |-> (c * d + r.q) \div 1024,
     exact |-> r.exact /\ (c * d + r.q) % 1024 = 0]

\* floor of c times the fraction written by the digits from position m on,
\* and whether that product is a whole number
RECURSIVE Fraction(_, _, _)
Fraction(size_bytes, m, c) ==
    IF m > Len(size_bytes)
    THEN [q |-> 0, exact |-> TRUE]
    ELSE TailStep(Fraction(size_bytes, m + 1, c), size_bytes[m], c)

HalfEven(t) ==
    IF t.q % 2 = 0 THEN t.q \div 2
    ELSE IF ~t.exact THEN (t.q + 1) \div 2
    ELSE IF ((t.q - 1) \div 2) % 2 = 0 THEN (t.q - 1) \div 2
    ELSE (t.q + 1) \div 2

\* s = round(size_bytes / math.pow(1024, i), 2), in hundredths
Round2(size_bytes, i) ==
    IF i = Len(size_bytes)
    THEN 100
    ELSE 100 * size_bytes[1] + HalfEven(Fraction(size_bytes, 2, 200))

\* return "%s %s" % (s, size_name[i])
Formatted(size_bytes, i) ==
    IF i + 1 > Len(size_name)
    THEN [kind |-> "IndexError", s |-> 0, unit |-> ""]
    ELSE [kind |-> "sized", s |-> Round2(size_bytes, i),
          unit |-> size_name[i + 1]]

\* the outcomes of convert_size(size_bytes)
convert_size(size_bytes) ==
    IF size_bytes = Zero
    THEN {[kind |-> "0B", s |-> 0, unit |-> "B"]}
    ELSE {Formatted(size_bytes, i) : i \in FloorLog(size_bytes)}

\* convert_size(ds.t2m.nbytes)
CellSize ==
    /\ \E out \in convert_size(nbytes) :
          /\ shown' = out
          /\ raised' = IF out.kind = "IndexError" THEN "IndexError"
                        ELSE "none"
    /\ UNCHANGED <<da, clim, clim_seas, da_year, da_alt, ts, ts_arctic,
                   coords, coords_alt, nbytes>>
    /\ UNCHANGED <<cmpVars, lazyVars, zone>>

\* the sizes of k digits around the powers of 1024
SizesOf(k) ==
    {<<d>> \o t : d \in {1, 1023},
                  t \in [1..(k - 1) -> {0, 1022, 1023}]}

\* zero and the sizes of up to MaxDigits digits
Sizes(k) == IF k = 0 THEN {Zero} ELSE SizesOf(k)

InitSize ==
    /\ \E k \in 0..MaxDigits : nbytes \in Sizes(k)
    /\ shown = Unset
    /\ da = Unset
    /\ clim = Unset
    /\ clim_seas = Unset
    /\ da_year = Unset
    /\ da_alt = Unset
    /\ ts = Unset
    /\ ts_arctic = Unset
    /\ coords = Unset
    /\ coords_alt = Unset
    /\ raised = "none"
    /\ ComparisonUnset
    /\ LazyUnset
    /\ zone = NotebookZone

NextSize == CellSize

SpecSize == InitSize /\ [][NextSize]_vars

\* the unit index of the displayed text
UnitIndex(out) == CHOOSE i \in 0..(Len(size_name) - 1) : size_name[i + 1] = out.unit

\* C21: convert_size(0) returns "0B"; for 0 < n < 1024^9 the unit index i
\* satisfies 1024^i <= n < 1024^(i+1), so that n / 1024^i lies in
\* [1, 1024).
C21_UnitBracketsSize ==
    shown # Unset =>
        /\ nbytes = Zero => shown.kind = "0B"
        /\ (nbytes # Zero /\ Len(nbytes) <= Len(size_name)) =>
               /\ shown.kind = "sized"
               /\ UnitIndex(shown) = Len(nbytes) - 1

\* C22: for every non-negative size convert_size returns a text naming
\* one of its nine units and raises no error.
C22_AlwaysNamesAUnit ==
    shown # Unset =>
        /\ raised = "none"
        /\ shown.kind \in {"0B", "sized"}
        /\ \E i \in 1..Len(size_name) : shown.unit = size_name[i]

\* ---------------------------------------------------------------------
\* Anomaly plot of the global and Arctic series: the loop that computes a
\* reference mean under the name clim.
\* ---------------------------------------------------------------------

RefStart == 1979    \* slice('1979', '2000')
RefStop == 2000

\* t.sel(time=slice('1979', '2000')).mean()
RefMean(t) == NanMean(SelTime(t, RefStart, RefStop).data)

\* t-clim
Anomaly(t, c) == [k \in 1..Len(t.time) |-> FSub(t.data[k], c)]

\* one pass of the loop body: clim is bound, then the regression runs
LoopPass(t, c) ==
    [clim   |-> Scalar(c),
     raised |-> Linregress(TimeYear(t), Anomaly(t, c)).raised]

LoopFrom(first, t2) ==
    IF first.raised # "none" THEN first ELSE LoopPass(t2, RefMean(t2))

\* for i, t in enumerate(ts_list): ...
AnomalyLoop(ts_list) ==
    LoopFrom(LoopPass(ts_list[1], RefMean(ts_list[1])), ts_list[2])

CellAnomalies ==
    /\ IF ts = Unset \/ ts_arctic = Unset
       THEN /\ raised' = "NameError"
            /\ UNCHANGED clim
       ELSE \E res \in {AnomalyLoop(<<ts, ts_arctic>>)} :
               /\ clim' = res.clim
               /\ raised' = res.raised
    /\ UNCHANGED <<da, clim_seas, da_year, da_alt, ts, ts_arctic, coords,
                   coords_alt>>
    /\ UNCHANGED <<cmpVars, lazyVars, zone, sizeVars>>

SessionLatAxes == {<<60, 0>>, <<0, -60>>}

\* a monthly field of two steps whose cells hold v at the first step and w
\* at the second
SessionField(m0, lat, v, w) ==
    [time      |-> MonthlyAxis(m0, 2),
     latitude  |-> lat,
     longitude |-> ClimLonAxis,
     data      |-> [t \in 1..2 |-> [i \in 1..Len(lat) |->
                      [j \in 1..Len(ClimLonAxis) |->
                          IF t = 1 THEN v ELSE w]]]]

InitSession ==
    /\ da \in {SessionField(m0, lat, v, w) :
                 m0 \in {1, 12}, lat \in SessionLatAxes,
                 v \in ClimVals, w \in ClimVals}
    /\ clim = Unset
    /\ clim_seas = Unset
    /\ da_year = Unset
    /\ da_alt = Unset
    /\ ts = Unset
    /\ ts_arctic = Unset
    /\ coords = Unset
    /\ coords_alt = Unset
    /\ raised = "none"
    /\ ComparisonUnset
    /\ LazyUnset
    /\ zone = NotebookZone
    /\ SizeUnset

NextSession ==
    \/ CellClim
    \/ CellClimSeas
    \/ CellResample
    \/ CellSpatialAverage
    \/ CellArctic
    \/ CellAnomalies

SpecSession == InitSession /\ [][NextSession]_vars

IsClimatology(c) == c # Unset /\ c = MeanTime(da)

\* C23: once clim has been assigned the time-mean climatology field, the
\* name clim denotes that (latitude, longitude) field in every later
\* state, whichever cells run and in whichever order, so that no cell
\* reading clim.longitude fails on it.
C23_ClimStaysClimatology ==
    [][IsClimatology(clim) =>
          /\ IsClimatology(clim')
          /\ raised' # "AttributeError"]_vars

====
